---- MODULE Spec2Model ----
(***************************************************************************)
(* A model of the scheduler of fly-studio/cron-cli (src/task.go).          *)
(*                                                                         *)
(* src/task.go holds two revisions of the Task type.  Revision 1 (lines    *)
(* 1-203) writes each job's command to a shell file and has a test mode;   *)
(* revision 2 (lines 204-380) has neither.  The variable `version` selects *)
(* the revision, `testMode` the field Task.testMode of revision 1.         *)
(*                                                                         *)
(* Time is counted in milliseconds.  Steps of the program take no time;    *)
(* time passes only while every Stop() in progress is inside time.Sleep,   *)
(* and it advances to the next instant at which a context deadline expires *)
(* or a sleeper wakes.                                                     *)
(*                                                                         *)
(* The job wrappers cron.Recover, cron.SkipIfStillRunning and              *)
(* cron.DelayIfStillRunning and the methods Cron.AddJob, Cron.Start and    *)
(* Cron.Stop belong to github.com/robfig/cron/v3; they are modelled by     *)
(* what that library does (chain.go, cron.go) at the line that calls them, *)
(* and signal.Notify by what package os/signal does.  Where revisions of   *)
(* the library differ (the skip wrapper after a panic), each is an outcome.*)
(* The methods of *job (Run, makeLogger, saveShellFile, deleteShellFile)   *)
(* live in a file that is not part of src/ and are modelled from spec.md.  *)
(***************************************************************************)
EXTENDS Integers, Sequences, FiniteSets

\* ------------------------------------------------------------------ bounds

\* Job objects (*job values) the host may hand to AddJob.
MaxJobs == 2

\* Triggers the cron loop may fire in one run, all jobs together.
MaxFires == 3

\* Calls of Start().
MaxStarts == 2

\* Stop sequences (explicit, by signal, or test mode's own) in one run.
MaxStops == 2

\* Termination signals delivered to the process.
MaxSignals == 2

\* ------------------------------------------------------- program constants

\* Task.stoppingTimeout, in milliseconds (NewTask).
stoppingTimeout == 3000

\* The factor of time.Sleep(100 * time.Second) in the drain loop.
SleepSeconds == 100

\* time.Second, in milliseconds.
MsPerSecond == 1000

SleepMs == SleepSeconds * MsPerSecond

\* ------------------------------------------------------------ runs explored

\* What one run may do.  The host registers jobs, starts and stops the
\* scheduler and waits for it, the cron loop fires triggers and the system
\* delivers termination signals; a run is long in one of these and short in
\* the others.  `faults` says whether the host passes invalid jobs and the
\* file system fails, `wait` whether the host calls Wait(), `ends` how an
\* execution may end, `signals` how many termination signals arrive (the
\* host calls ListenStopSignal when that is not zero).  The runs explored:
\*   - up to MaxJobs jobs of any kind, then a start and one trigger;
\*   - up to MaxJobs jobs of any kind, then a start and a stop;
\*   - one job and up to MaxFires triggers of it, with a stop;
\*   - up to MaxJobs valid jobs and two triggers;
\*   - one job, with up to MaxStarts starts, MaxStops stop sequences and
\*     a Wait();
\*   - one job, with a start, a signal listener, up to MaxSignals signals
\*     and up to MaxStops stop sequences.
\* In the runs where executions may fail or panic, ends is Ends.
Ends == {"ok", "fail", "panic"}

Limits ==
    {[jobs |-> MaxJobs, faults |-> TRUE, fires |-> 1, starts |-> 1, stops |-> 0,
      wait |-> FALSE, ends |-> {"ok"}, signals |-> 0],
     [jobs |-> MaxJobs, faults |-> TRUE, fires |-> 0, starts |-> 1, stops |-> 1,
      wait |-> FALSE, ends |-> {"ok"}, signals |-> 0],
     [jobs |-> 1, faults |-> FALSE, fires |-> MaxFires, starts |-> 1, stops |-> 1,
      wait |-> FALSE, ends |-> Ends, signals |-> 0],
     [jobs |-> MaxJobs, faults |-> FALSE, fires |-> 2, starts |-> 1, stops |-> 0,
      wait |-> FALSE, ends |-> Ends, signals |-> 0],
     [jobs |-> 1, faults |-> FALSE, fires |-> 0, starts |-> MaxStarts,
      stops |-> MaxStops, wait |-> TRUE, ends |-> {"ok"}, signals |-> 0],
     [jobs |-> 1, faults |-> FALSE, fires |-> 0, starts |-> 1,
      stops |-> MaxStops, wait |-> FALSE, ends |-> {"ok"}, signals |-> MaxSignals]}

Objs == 1..MaxJobs

\* The stop sequences: those of the calls of Stop() and those of the
\* goroutines of startTest (the deferred stopTest of each).
StopSeqs == 1..MaxStops
TestIds == 1..MaxStarts

\* ---------------------------------------------------------------- inputs

\* The job specifications the host draws from: the three running modes of
\* a valid job, and one job for each way of being invalid.
ValidSpecs ==
    {[Schedule |-> "@every 1s", Command |-> "echo 1", RunningMode |-> m] :
        m \in {"", "skip", "delay"}}

JobSpecs ==
    ValidSpecs
    \cup {[Schedule |-> "", Command |-> "echo 1", RunningMode |-> ""],
          [Schedule |-> "@every 1s", Command |-> "", RunningMode |-> ""],
          [Schedule |-> "", Command |-> "", RunningMode |-> ""],
          [Schedule |-> "bad", Command |-> "echo 1", RunningMode |-> ""]}

\* What the environment does to one job during registration: nothing, or
\* fail the write of its shell file.  (job.makeLogger is taken to succeed.)
EnvFaults == {"none", "write"}

NoJob == [Schedule |-> "", Command |-> "", RunningMode |-> "", id |-> 0,
          shellFile |-> FALSE]

Range(s) == {s[i] : i \in 1..Len(s)}

\* The batches the host may form of the job objects of S: their non-empty
\* sequences in ascending order (job objects are interchangeable).
RECURSIVE Ascending(_)
Ascending(S) ==
    IF S = {} THEN <<>>
    ELSE LET x == CHOOSE y \in S : \A z \in S : y <= z
         IN <<x>> \o Ascending(S \ {x})

Batches(S) == {Ascending(T) : T \in (SUBSET S) \ {{}}}

VARIABLES
    limit,        \* the bounds of this run, one of Limits
    version,      \* 1 or 2: the revision of task.go
    testMode,     \* Task.testMode (revision 1)
    job,          \* the *job objects: their fields, id and shellFile
    outcome,      \* per job object: what the AddJob call it was passed to returned
    ioFailed,     \* job objects whose saveShellFile failed
    files,        \* job objects whose shell file exists on disk
    cronEntries,  \* Task.Cron's entries, in order of registration
    nextID,       \* Cron.nextID
    Jobs,         \* Task.Jobs
    lastBatch,    \* the batch of the latest AddJob call
    lastErr,      \* the index in lastBatch at which it failed, 0 if it did not
    cronRunning,  \* Cron.running
    startCount,   \* calls of Start() so far
    startPc,      \* the host inside Start(): "idle", or "cron" once the cron
                  \* loop runs and the token is still to be replaced
    stopped,      \* Stop() has been invoked since the latest call of Start()
    curTok,       \* the current cancellation token (0: nil)
    cancelled,    \* the tokens cancelled so far
    wg,           \* Task.wg's counter
    panicked,     \* the process died of a negative WaitGroup counter
    runningCount, \* Task.runningCount
    ex,           \* per job object: its triggers and executions
    firedTotal,   \* triggers fired so far
    testG,        \* the goroutines started by startTest
    stop,         \* the stop sequences
    stopCount,    \* stop sequences begun so far (or due: test mode's own)
    waitPc,       \* the host's call of Wait(): "none", "blocked", "returned"
    sig           \* the goroutine of ListenStopSignal and the signals delivered

regVars == <<job, outcome, ioFailed, files, cronEntries, nextID, Jobs,
             lastBatch, lastErr>>
lifeVars == <<cronRunning, startCount, startPc, stopped, curTok, cancelled, wg,
              panicked, waitPc>>
runVars == <<runningCount, ex, firedTotal, testG>>
stopVars == <<stop, stopCount>>
vars == <<limit, version, testMode, regVars, lifeVars, runVars, stopVars, sig>>

\* ----------------------------------------------------------- registration

\* Validate with the check of the command forgotten.
ValidateScheduleOnly(j) == IF j.Schedule = "" THEN "schedule" ELSE ""

\* The checks AddJob makes of one job before it touches anything:
\* "schedule" or "command" names the field that is missing, "" is a pass.
Validate(j) ==
    IF j.Schedule = "" THEN "schedule"
    ELSE IF j.Command = "" THEN "command"
    ELSE ""

\* Cron.AddJob's parser: whether it accepts the schedule.
ParserAccepts(schedule) == schedule \notin {"", "bad"}

\* An entry id that is the same for every job.
EntryIDFixed(n) == 1

\* The id Cron.AddJob gives the entry it adds: c.nextID++, then the new
\* value of the counter.
EntryID(n) == n + 1

\* What createCronJob returns once the job is in the trigger table: the
\* result of job.saveShellFile() is dropped, so nil ("") whatever it was.
SaveResult(writeFailed) == ""

\* The registration state AddJob works on.
RegState ==
    [job |-> job, entries |-> cronEntries, nextID |-> nextID, files |-> files,
     ioFailed |-> ioFailed, err |-> 0]

\* createCronJob for job object o in registration state r; env is what the
\* environment does to o.  The outcome is the new state and the error.
CreateCronJob(r, o, env) ==
    IF ~ParserAccepts(r.job[o].Schedule)
    THEN [st |-> r, err |-> "invalid schedule"]
    ELSE LET id == EntryID(r.nextID)
             saved == version = 1
             wrote == saved /\ env # "write"
             r1 == [r EXCEPT !.nextID = @ + 1,
                             !.entries = Append(@, o),
                             !.job[o].id = id,
                             !.job[o].shellFile = saved,
                             !.files = IF wrote THEN @ \cup {o} ELSE @,
                             !.ioFailed = IF saved /\ ~wrote THEN @ \cup {o} ELSE @]
         IN [st |-> r1, err |-> IF saved THEN SaveResult(~wrote) ELSE ""]

\* The loop of AddJob over batch[i..], stopping at the first error: the
\* state it leaves and the index it failed at (0: it did not).
RECURSIVE AddJobLoop(_, _, _, _)
AddJobLoop(r, batch, env, i) ==
    IF i > Len(batch) THEN r
    ELSE LET o == batch[i]
         IN IF Validate(r.job[o]) # "" THEN [r EXCEPT !.err = i]
            ELSE LET c == CreateCronJob(r, o, env[o])
                 IN IF c.err # "" THEN [c.st EXCEPT !.err = i]
                    ELSE AddJobLoop(c.st, batch, env, i + 1)

\* What AddJob appends to Task.Jobs: the whole batch, and only when every
\* job of it passed.
JobsAfter(js, batch, err) == IF err = 0 THEN js \o batch ELSE js

\* AddJob(jobs...): the host passes a batch of fresh job objects.  The host
\* registers its jobs before it starts or stops the scheduler.
AddJob(batch, specs, env) ==
    /\ ~panicked
    /\ startCount = 0
    /\ stopCount = 0
    /\ LET given == [o \in Objs |->
                        IF o \in Range(batch)
                        THEN [NoJob EXCEPT !.Schedule = specs[o].Schedule,
                                           !.Command = specs[o].Command,
                                           !.RunningMode = specs[o].RunningMode]
                        ELSE job[o]]
           r == AddJobLoop([RegState EXCEPT !.job = given], batch, env, 1)
       IN /\ job' = r.job
          /\ cronEntries' = r.entries
          /\ nextID' = r.nextID
          /\ files' = r.files
          /\ ioFailed' = r.ioFailed
          /\ Jobs' = JobsAfter(Jobs, batch, r.err)
          /\ lastBatch' = batch
          /\ lastErr' = r.err
          /\ outcome' = [o \in Objs |->
                            IF o \in Range(batch)
                            THEN (IF r.err = 0 THEN "ok" ELSE "error")
                            ELSE outcome[o]]
    /\ UNCHANGED <<limit, version, testMode, lifeVars, runVars, stopVars, sig>>

Fresh == {o \in Objs : outcome[o] = "none"}

AddJobCall ==
    \E batch \in Batches(Fresh) :
        /\ Cardinality(Objs \ Fresh) + Len(batch) <= limit.jobs
        /\ \E specs \in [Range(batch) -> IF limit.faults THEN JobSpecs ELSE ValidSpecs] :
            \E env \in [Range(batch) -> IF limit.faults THEN EnvFaults ELSE {"none"}] :
                AddJob(batch, specs, env)

\* ------------------------------------------------------------------- init

NoEx == [fired |-> 0, skipped |-> 0, waiting |-> 0, locked |-> FALSE,
         running |-> 0, completed |-> 0, failed |-> FALSE]

NoStop == [pc |-> "idle", elapsed |-> 0, sleepLeft |-> 0, err |-> "",
           hasParent |-> FALSE, forced |-> FALSE]

NoTest == [pc |-> "off", idx |-> 0, seq |-> 0]

NoListener == [pc |-> "none", delivered |-> 0, missed |-> 0]

Init ==
    /\ limit \in Limits
    /\ version \in {1, 2}
    /\ testMode \in (IF version = 1 THEN BOOLEAN ELSE {FALSE})
    /\ job = [o \in Objs |-> NoJob]
    /\ outcome = [o \in Objs |-> "none"]
    /\ ioFailed = {}
    /\ files = {}
    /\ cronEntries = <<>>
    /\ nextID = 0
    /\ Jobs = <<>>
    /\ lastBatch = <<>>
    /\ lastErr = 0
    /\ cronRunning = FALSE
    /\ startCount = 0
    /\ startPc = "idle"
    /\ stopped = FALSE
    /\ curTok = 0
    /\ cancelled = {}
    /\ wg = 0
    /\ panicked = FALSE
    /\ runningCount = 0
    /\ ex = [o \in Objs |-> NoEx]
    /\ firedTotal = 0
    /\ testG = [g \in TestIds |-> NoTest]
    /\ stop = [s \in StopSeqs |-> NoStop]
    /\ stopCount = 0
    /\ waitPc = "none"
    /\ sig = NoListener

\* ------------------------------------------------------------- lifecycle

\* A cancel function that cancels nothing.
CancelNothing(tok, set) == set

\* `if t.quitSignalCancel != nil { t.quitSignalCancel() }`: the tokens
\* cancelled once the cancel function of token tok was called (0: nil).
quitSignalCancel(tok, set) == IF tok # 0 THEN set \cup {tok} ELSE set

\* Start().  Outside test mode this is its first part: Cron.Start() sets
\* the cron loop going (once: Cron.Start() does nothing when it runs) and
\* the WaitGroup is raised; the token is replaced by StartToken.  Revision
\* 1 in test mode runs startTest instead, whole: the WaitGroup, the token
\* and the goroutine, which ends in a stop sequence of its own; that one is
\* counted against the run's stop sequences when the goroutine starts.
Start ==
    /\ ~panicked
    /\ startPc = "idle"
    /\ startCount < limit.starts
    /\ testMode => stopCount < limit.stops
    /\ startCount' = startCount + 1
    /\ stopped' = FALSE
    /\ wg' = wg + 1
    /\ IF testMode
       THEN /\ stopCount' = stopCount + 1
            /\ cancelled' = quitSignalCancel(curTok, cancelled)
            /\ curTok' = startCount + 1
            /\ testG' = [testG EXCEPT ![startCount + 1] =
                            [pc |-> "loop", idx |-> 0, seq |-> stopCount + 1]]
            /\ UNCHANGED <<cronRunning, startPc>>
       ELSE /\ cronRunning' = TRUE
            /\ startPc' = "cron"
            /\ UNCHANGED <<stopCount, cancelled, curTok, testG>>
    /\ UNCHANGED <<limit, version, testMode, regVars, panicked, waitPc, runningCount,
                   ex, firedTotal, stop, sig>>

\* The rest of Start(): the token of the start before is cancelled and a
\* fresh one takes its place.
StartToken ==
    /\ ~panicked
    /\ startPc = "cron"
    /\ startPc' = "idle"
    /\ cancelled' = quitSignalCancel(curTok, cancelled)
    /\ curTok' = startCount
    /\ UNCHANGED <<limit, version, testMode, regVars, cronRunning, startCount, stopped,
                   wg, panicked, waitPc, runVars, stopVars, sig>>

\* Wait(): the host blocks on the WaitGroup.
WaitCall ==
    /\ ~panicked
    /\ limit.wait
    /\ startPc = "idle"
    /\ startCount > 0
    /\ waitPc = "none"
    /\ waitPc' = "blocked"
    /\ UNCHANGED <<limit, version, testMode, regVars, cronRunning, startCount, startPc,
                   stopped, curTok, cancelled, wg, panicked, runVars, stopVars, sig>>

WaitReturn ==
    /\ ~panicked
    /\ waitPc = "blocked"
    /\ wg = 0
    /\ waitPc' = "returned"
    /\ UNCHANGED <<limit, version, testMode, regVars, cronRunning, startCount, startPc,
                   stopped, curTok, cancelled, wg, panicked, runVars, stopVars, sig>>

\* -------------------------------------------------------------- executions

\* cron.SkipIfStillRunning: the wrapper holds one token; a trigger that
\* finds it taken logs "skip" and returns.
SkipIfStillRunning(e) ==
    IF e.locked THEN [e EXCEPT !.skipped = @ + 1]
    ELSE [e EXCEPT !.locked = TRUE, !.running = @ + 1]

\* A delay wrapper that holds back one trigger and drops the others.
DelaySingleSlot(e) ==
    IF e.locked
    THEN (IF e.waiting >= 1 THEN e ELSE [e EXCEPT !.waiting = @ + 1])
    ELSE [e EXCEPT !.locked = TRUE, !.running = @ + 1]

\* A delay wrapper whose mutex never blocks.
DelayNever(e) == [e EXCEPT !.locked = TRUE, !.running = @ + 1]

\* cron.DelayIfStillRunning: the wrapper holds a mutex; a trigger that
\* finds it locked blocks in mu.Lock().
DelayIfStillRunning(e) ==
    IF e.locked THEN [e EXCEPT !.waiting = @ + 1]
    ELSE [e EXCEPT !.locked = TRUE, !.running = @ + 1]

\* A chain without a guard that still lets one execution through at a time.
NoGuardSingle(e) ==
    IF e.running > 0 THEN [e EXCEPT !.skipped = @ + 1]
    ELSE [e EXCEPT !.running = @ + 1]

\* RunningMode "": the job is wrapped by cron.Recover alone.
NoGuard(e) == [e EXCEPT !.running = @ + 1]

\* The chain createCronJob builds for a running mode.
Wrapped(mode, e) ==
    CASE mode = "delay" -> DelayIfStillRunning(e)
      [] mode = "skip" -> SkipIfStillRunning(e)
      [] OTHER -> NoGuard(e)

\* The release of a guard: the delay wrapper unlocks its mutex, the skip
\* wrapper puts its token back.
Released(mode, e) ==
    IF mode \in {"skip", "delay"} THEN [e EXCEPT !.locked = FALSE] ELSE e

\* Whether the skip wrapper of the build keeps its token when job.Run()
\* panics.  The release of robfig/cron v3.0.1 puts the token back with a
\* statement after j.Run() (`j.Run(); ch <- v`), which a panic jumps over;
\* later revisions of the library defer it.  task.go does not say which one
\* is built in, so both are outcomes.
SkipKeepsTokenOnPanic == BOOLEAN

\* What the end of an execution does to the guard.  cron.Recover is the
\* outermost wrapper, so a panic of job.Run() unwinds through the guard:
\* the delay wrapper's `defer mu.Unlock()` runs, the skip wrapper's release
\* runs if it is deferred (kept = FALSE).
GuardAfterRun(mode, how, kept, e) ==
    IF mode = "skip" /\ how = "panic" /\ kept THEN e ELSE Released(mode, e)

\* The executions of all jobs that the wrappers have let through: each is
\* inside job.Run(), which has raised the in-flight counter by one.
RECURSIVE SumOver(_, _)
SumOver(f, S) ==
    IF S = {} THEN 0
    ELSE LET x == CHOOSE y \in S : TRUE IN f[x] + SumOver(f, S \ {x})

Executing(e) == SumOver([o \in Objs |-> e[o].running], Objs)

\* The cron loop finds job o due and starts a goroutine for its chain; an
\* execution the wrapper lets through enters job.Run() at once.
Fire(o) ==
    /\ ~panicked
    /\ cronRunning
    /\ o \in Range(cronEntries)
    /\ firedTotal < limit.fires
    /\ firedTotal' = firedTotal + 1
    /\ ex' = [ex EXCEPT ![o] = [Wrapped(job[o].RunningMode, @) EXCEPT !.fired = @ + 1]]
    /\ runningCount' = runningCount + Executing(ex') - Executing(ex)
    /\ UNCHANGED <<limit, version, testMode, regVars, lifeVars, testG, stopVars, sig>>

\* A goroutine blocked in the delay wrapper's mu.Lock() gets the mutex and
\* enters job.Run().
DelayAcquire(o) ==
    /\ ~panicked
    /\ ex[o].waiting > 0
    /\ ~ex[o].locked
    /\ ex' = [ex EXCEPT ![o].waiting = @ - 1, ![o].locked = TRUE,
                        ![o].running = @ + 1]
    /\ runningCount' = runningCount + 1
    /\ UNCHANGED <<limit, version, testMode, regVars, lifeVars, firedTotal, testG,
                   stopVars, sig>>

\* The stop sequences in progress.
Active == {s \in StopSeqs : stop[s].pc \notin {"idle", "done", "panic"}}

\* An execution ends: its commands exit with zero ("ok") or not ("fail"),
\* and job.Run() logs that and returns, or job.Run() panics ("panic") and
\* cron.Recover logs the panic.  job.Run() lowers the in-flight counter on
\* every path.  Neither the trigger loop nor another job is touched.
RunEnd(o) ==
    /\ ~panicked
    /\ ex[o].running > 0
    /\ \E how \in limit.ends, kept \in SkipKeepsTokenOnPanic :
          /\ (kept => how = "panic" /\ job[o].RunningMode = "skip")
          /\ ex' = [ex EXCEPT ![o] =
                       GuardAfterRun(job[o].RunningMode, how, kept,
                           [@ EXCEPT !.running = @ - 1,
                                     !.completed = @ + 1,
                                     !.failed = @ \/ how # "ok"])]
    /\ runningCount' = runningCount - 1
    /\ UNCHANGED <<limit, version, testMode, regVars, lifeVars, firedTotal, testG,
                   stopVars, sig>>

\* The goroutine of startTest calls j.Run() on the next job of Task.Jobs.
TestRunBegin(g) ==
    /\ ~panicked
    /\ testG[g].pc = "loop"
    /\ testG[g].idx < Len(Jobs)
    /\ testG' = [testG EXCEPT ![g].pc = "run"]
    /\ runningCount' = runningCount + 1
    /\ UNCHANGED <<limit, version, testMode, regVars, lifeVars, ex, firedTotal, stopVars,
                   sig>>

TestRunEnd(g) ==
    /\ ~panicked
    /\ testG[g].pc = "run"
    /\ testG' = [testG EXCEPT ![g].pc = "loop", ![g].idx = @ + 1]
    /\ runningCount' = runningCount - 1
    /\ UNCHANGED <<limit, version, testMode, regVars, lifeVars, ex, firedTotal, stopVars,
                   sig>>

\* ------------------------------------------------------------------- stop

\* The goroutines Cron started that have not returned (Cron.jobWaiter).
jobWaiter == SumOver([o \in Objs |-> ex[o].waiting + ex[o].running], Objs)

\* The record of a stop sequence that begins now.
BeginStop(parent) ==
    [NoStop EXCEPT !.pc = "poll", !.hasParent = parent]

\* Stop(): Cron.Stop() unless in test mode, the context with the stopping
\* timeout, then stopImpl up to its drain loop (the token is cancelled).
\* In revision 2 the same, inside Stop.
InvokeStop ==
    /\ ~panicked
    /\ stopCount < limit.stops
    /\ stopCount' = stopCount + 1
    /\ stopped' = TRUE
    /\ cronRunning' = (IF testMode THEN cronRunning ELSE FALSE)
    /\ cancelled' = quitSignalCancel(curTok, cancelled)
    /\ stop' = [stop EXCEPT ![stopCount + 1] = BeginStop(version = 1 /\ ~testMode)]
    /\ UNCHANGED <<limit, version, testMode, regVars, startCount, startPc, curTok, wg,
                   panicked, waitPc, runVars>>

\* The host calls Stop().
StopCall ==
    /\ startPc = "idle"
    /\ InvokeStop
    /\ sig' = sig

\* The goroutine of startTest has run every job: its deferred stopTest.
TestStop(g) ==
    /\ ~panicked
    /\ testG[g].pc = "loop"
    /\ testG[g].idx = Len(Jobs)
    /\ testG' = [testG EXCEPT ![g].pc = "stop"]
    /\ cancelled' = quitSignalCancel(curTok, cancelled)
    /\ stop' = [stop EXCEPT ![testG[g].seq] = BeginStop(FALSE)]
    /\ UNCHANGED <<limit, version, testMode, regVars, cronRunning, startCount, startPc,
                   stopped, curTok, wg, panicked, waitPc, runningCount, ex, firedTotal,
                   stopCount, sig>>

\* ListenStopSignal(): the goroutine makes its channel, which has no
\* buffer, and registers it with signal.Notify.
ListenStopSignal ==
    /\ ~panicked
    /\ startPc = "idle"
    /\ limit.signals > 0
    /\ sig.pc = "none"
    /\ sig' = [sig EXCEPT !.pc = "notify"]
    /\ UNCHANGED <<limit, version, testMode, regVars, lifeVars, runVars, stopVars>>

\* The goroutine of ListenStopSignal reaches `<-ch` and blocks.
ListenerReceive ==
    /\ ~panicked
    /\ sig.pc = "notify"
    /\ sig' = [sig EXCEPT !.pc = "recv"]
    /\ UNCHANGED <<limit, version, testMode, regVars, lifeVars, runVars, stopVars>>

\* What package os/signal does with a signal for a registered channel: a
\* send that does not block.  On a channel without buffer it succeeds only
\* if the goroutine is blocked in the receive; otherwise the signal is
\* dropped.
Notified(l) ==
    IF l.pc = "recv"
    THEN [l EXCEPT !.pc = "call", !.delivered = @ + 1]
    ELSE [l EXCEPT !.delivered = @ + 1, !.missed = @ + 1]

\* The system delivers SIGHUP, SIGINT, SIGTERM or SIGQUIT to the process.
Signal ==
    /\ ~panicked
    /\ sig.pc # "none"
    /\ sig.delivered < limit.signals
    /\ sig' = Notified(sig)
    /\ UNCHANGED <<limit, version, testMode, regVars, lifeVars, runVars, stopVars>>

\* The goroutine of ListenStopSignal has received a signal: it calls the
\* callback, which is Stop(), and ends.
SignalStop ==
    /\ sig.pc = "call"
    /\ InvokeStop
    /\ sig' = [sig EXCEPT !.pc = "done"]

\* The goroutine Cron.Stop() started cancels the context it returned, once
\* every goroutine Cron started has returned.
CronWaiterCancel(s) ==
    /\ ~panicked
    /\ s \in Active
    /\ stop[s].hasParent
    /\ stop[s].err = ""
    /\ jobWaiter = 0
    /\ stop' = [stop EXCEPT ![s].err = "Canceled"]
    /\ UNCHANGED <<limit, version, testMode, regVars, lifeVars, runVars, stopCount, sig>>

\* The time the drain loop sleeps between two polls.
SleepFor == SleepMs

\* One turn of the drain loop of stopImpl (revision 1): "leave" is the
\* loop's exit, after which the deferred functions run.
DrainV1(r) ==
    IF runningCount > 0
    THEN IF r.err # ""
         THEN [r EXCEPT !.pc = "leave", !.forced = (r.err = "DeadlineExceeded")]
         ELSE [r EXCEPT !.pc = "sleep", !.sleepLeft = SleepFor]
    ELSE [r EXCEPT !.pc = "leave"]

\* One turn of the drain loop of Stop (revision 2).
DrainV2(r) ==
    IF r.err # ""
    THEN [r EXCEPT !.pc = "leave", !.forced = TRUE]
    ELSE IF runningCount > 0
         THEN [r EXCEPT !.pc = "sleep", !.sleepLeft = SleepFor]
         ELSE [r EXCEPT !.pc = "leave"]

Drain(r) == IF version = 1 THEN DrainV1(r) ELSE DrainV2(r)

\* The files on disk once the deferred loop of stopImpl has called
\* deleteShellFile on every job of Task.Jobs.
FilesAfterStop == files \ Range(Jobs)

\* What runs when the drain loop is left, before wg.Done(): in revision 1
\* the deferred deletion of the shell files (deferred functions run
\* last-in first-out, and wg.Done() was deferred first).
AfterDrain(r) == [r EXCEPT !.pc = "wgdone"]

Ready(s) ==
    \/ stop[s].pc = "poll"
    \/ stop[s].pc = "sleep" /\ stop[s].sleepLeft = 0

\* A stop sequence polls the in-flight counter; when that ends the drain
\* loop, the shell files are deleted (revision 1).
StopPoll(s) ==
    /\ ~panicked
    /\ Ready(s)
    /\ LET r == Drain(stop[s])
       IN IF r.pc = "leave"
          THEN /\ stop' = [stop EXCEPT ![s] = AfterDrain(r)]
               /\ files' = (IF version = 1 THEN FilesAfterStop ELSE files)
          ELSE /\ stop' = [stop EXCEPT ![s] = r]
               /\ files' = files
    /\ UNCHANGED <<limit, version, testMode, job, outcome, ioFailed, cronEntries, nextID,
                   Jobs, lastBatch, lastErr, lifeVars, runVars, stopCount, sig>>

\* wg.Done(): a counter below zero panics.
StopDone(s) ==
    /\ ~panicked
    /\ stop[s].pc = "wgdone"
    /\ wg' = wg - 1
    /\ panicked' = (wg = 0)
    /\ stop' = [stop EXCEPT ![s].pc = IF wg = 0 THEN "panic" ELSE "done"]
    /\ UNCHANGED <<limit, version, testMode, regVars, cronRunning, startCount, startPc,
                   stopped, curTok, cancelled, waitPc, runVars, stopCount, sig>>

\* The stop sequences asleep in time.Sleep.
Sleeping == {s \in Active : stop[s].pc = "sleep" /\ stop[s].sleepLeft > 0}

\* The next instants at which something happens: a sleeper wakes, or the
\* deadline of a stop sequence expires.
Delays ==
    {stop[s].sleepLeft : s \in Sleeping}
    \cup {stoppingTimeout - stop[s].elapsed :
            s \in {t \in Active : stop[t].elapsed < stoppingTimeout}}

\* Time passes while every stop sequence in progress is asleep.
Tick(d) ==
    /\ ~panicked
    /\ Sleeping # {}
    /\ Active = Sleeping
    /\ d \in Delays
    /\ \A s \in Sleeping : d <= stop[s].sleepLeft
    /\ stop' = [s \in StopSeqs |->
                  IF s \in Active
                  THEN [stop[s] EXCEPT
                          !.elapsed = @ + d,
                          !.sleepLeft = @ - d,
                          !.err = IF @ = "" /\ stop[s].elapsed + d >= stoppingTimeout
                                  THEN "DeadlineExceeded" ELSE @]
                  ELSE stop[s]]
    /\ UNCHANGED <<limit, version, testMode, regVars, lifeVars, runVars, stopCount, sig>>

TimePasses == \E d \in Delays : Tick(d)

Next ==
    \/ AddJobCall
    \/ Start
    \/ StartToken
    \/ WaitCall
    \/ WaitReturn
    \/ \E o \in Objs : Fire(o)
    \/ \E o \in Objs : DelayAcquire(o)
    \/ \E o \in Objs : RunEnd(o)
    \/ \E g \in TestIds : TestRunBegin(g)
    \/ \E g \in TestIds : TestRunEnd(g)
    \/ \E g \in TestIds : TestStop(g)
    \/ StopCall
    \/ ListenStopSignal
    \/ ListenerReceive
    \/ Signal
    \/ SignalStop
    \/ \E s \in StopSeqs : CronWaiterCancel(s)
    \/ \E s \in StopSeqs : StopPoll(s)
    \/ \E s \in StopSeqs : StopDone(s)
    \/ TimePasses

Spec == Init /\ [][Next]_vars


\* ------------------------------------------------------------------ claims

Done(s) == stop[s].pc = "done"

SkipJobs == {o \in Range(cronEntries) : job[o].RunningMode = "skip"}
DelayJobs == {o \in Range(cronEntries) : job[o].RunningMode = "delay"}

\* C1: a stop sequence that has returned did so no later than the stopping
\* timeout after it was invoked.
C1_StopWithinDeadline ==
    \A s \in StopSeqs : Done(s) => stop[s].elapsed <= stoppingTimeout

\* C2: a Stop() does not wait out its deadline once the in-flight counter
\* is zero: when the counter is zero before the deadline of a Stop() in
\* progress, that Stop() has returned by the time the deadline arrives.
\* (A Stop() invoked with the counter at zero is the case elapsed = 0.)
C2_ReturnsWhenDrained ==
    [][\A s \in StopSeqs :
          (s \in Active /\ runningCount = 0 /\ stop[s].elapsed < stoppingTimeout)
              => stop'[s].elapsed < stoppingTimeout]_vars

\* C3: once a stop sequence has completed, no job of the trigger table has
\* its shell file on disk any more.
C3_ArtifactsRemoved ==
    (\E s \in StopSeqs : Done(s)) => \A o \in Range(cronEntries) : o \notin files

\* C4: Wait() returns only after a stop sequence has completed, and once
\* one has completed a blocked Wait() is free to return.
C4_WaitReturnsAfterOneStop ==
    /\ waitPc = "returned" => \E s \in StopSeqs : Done(s)
    /\ (waitPc = "blocked" /\ \E s \in StopSeqs : Done(s)) => wg = 0

\* C5: a job passed to AddJob with an empty schedule or an empty command
\* makes the call fail and is in neither the trigger table nor Task.Jobs;
\* it has no id, no trigger of it fires and no execution of it runs.
Submitted == {o \in Objs : outcome[o] # "none"}

C5_InvalidNeverRegistered ==
    \A o \in Submitted :
        (job[o].Schedule = "" \/ job[o].Command = "")
            => /\ outcome[o] = "error"
               /\ o \notin Range(cronEntries)
               /\ o \notin Range(Jobs)
               /\ job[o].id = 0
               /\ ex[o] = NoEx

\* C5's case: a job with a schedule and no command was refused, the
\* scheduler runs and has fired a trigger of another job.
C5_Witness ==
    \E o \in Submitted, p \in Objs :
        /\ job[o].Schedule # ""
        /\ job[o].Command = ""
        /\ outcome[o] = "error"
        /\ ex[p].fired > 0

\* C6: the trigger table and Task.Jobs hold the same jobs; after a batch
\* that failed at its k-th job, the jobs before the k-th are in both and
\* the k-th and later ones in neither.
C6_BatchPrefixRegistered ==
    /\ Range(cronEntries) = Range(Jobs)
    /\ lastErr > 0 =>
          \A i \in 1..Len(lastBatch) :
              IF i < lastErr
              THEN lastBatch[i] \in Range(cronEntries) \cap Range(Jobs)
              ELSE lastBatch[i] \notin Range(cronEntries) \cup Range(Jobs)

\* C7: the AddJob call of a job whose shell file could not be written
\* returned an error.
C7_WriteFailureReported ==
    \A o \in ioFailed : outcome[o] = "error"

\* C8: under the skip policy at most one execution is in flight and no
\* trigger is held back; every trigger was either discarded or became an
\* execution; a trigger that fires during an execution is discarded and
\* starts nothing (and nothing panics), one that fires otherwise starts an
\* execution.
C8_SkipDiscards ==
    /\ [](\A o \in SkipJobs :
            /\ ex[o].running <= 1
            /\ ex[o].waiting = 0
            /\ ex[o].fired = ex[o].skipped + ex[o].running + ex[o].completed)
    /\ [][\A o \in SkipJobs :
            ex'[o].fired = ex[o].fired + 1 =>
                IF ex[o].running > 0
                THEN /\ ex'[o].skipped = ex[o].skipped + 1
                     /\ ex'[o].running = ex[o].running
                     /\ runningCount' = runningCount
                     /\ ~panicked'
                ELSE /\ ex'[o].skipped = ex[o].skipped
                     /\ ex'[o].running = 1]_vars

\* C9: under the delay policy no two executions of a job overlap and no
\* trigger is lost: each one is held, in flight or done; a held trigger
\* starts only when no execution is in flight, and it is free to start as
\* soon as none is.
C9_DelaySerializes ==
    /\ [](\A o \in DelayJobs :
            /\ ex[o].running <= 1
            /\ ex[o].skipped = 0
            /\ ex[o].fired = ex[o].waiting + ex[o].running + ex[o].completed
            /\ (ex[o].waiting > 0 /\ ex[o].running = 0 /\ ~panicked)
                   => ENABLED DelayAcquire(o))
    /\ [][\A o \in DelayJobs :
            ex'[o].running > ex[o].running => ex[o].running = 0]_vars

\* C9's case: one trigger of a delay job is held while the execution of
\* the one before it is in flight.
C9_Witness ==
    \E o \in DelayJobs :
        ex[o].fired = 2 /\ ex[o].waiting = 1 /\ ex[o].running = 1

\* C10 as claimed: under the delay policy at most one trigger is held.
C10_NoStacking ==
    \A o \in DelayJobs : ex[o].waiting <= 1

\* C10 as amended: under the delay policy held triggers stack.  Every
\* trigger that fires during an execution is held, whatever the number
\* already held, and a held trigger leaves the queue only by starting its
\* execution: k held triggers make k further executions.
C10_HeldTriggersAllRun ==
    [][\A o \in DelayJobs :
          /\ (ex'[o].fired = ex[o].fired + 1 /\ ex[o].running > 0)
                 => ex'[o].waiting = ex[o].waiting + 1
          /\ ex'[o].waiting < ex[o].waiting
                 => /\ ex'[o].waiting = ex[o].waiting - 1
                    /\ ex'[o].running = ex[o].running + 1]_vars

\* C10's case: two triggers of a delay job are held during one execution.
C10_Witness ==
    \E o \in DelayJobs : ex[o].waiting = 2 /\ ex[o].running = 1

\* C11: under the default policy (RunningMode "") every trigger starts an
\* execution at once, whatever is in flight, and raises the in-flight
\* counter by one: no trigger is discarded or held, every trigger is an
\* execution in flight or done, and the counter is at least the number of
\* executions of the job in flight.
ConcurrentJobs == {o \in Range(cronEntries) : job[o].RunningMode = ""}

C11_AllowConcurrent ==
    /\ [](\A o \in ConcurrentJobs :
            /\ ex[o].skipped = 0
            /\ ex[o].waiting = 0
            /\ ex[o].fired = ex[o].running + ex[o].completed
            /\ runningCount >= ex[o].running)
    /\ [][\A o \in ConcurrentJobs :
            ex'[o].fired = ex[o].fired + 1 =>
                /\ ex'[o].running = ex[o].running + 1
                /\ runningCount' = runningCount + 1]_vars

\* C11's case: two executions of one job of the default policy overlap and
\* the in-flight counter is at least 2.
C11_Witness ==
    \E o \in ConcurrentJobs : ex[o].running = 2 /\ runningCount >= 2

\* C12: an execution that fails or panics blocks nothing.  A guard is held
\* only while an execution of its job is in flight; a trigger of a job that
\* has had a failed execution, fired when nothing of that job is in flight
\* or held, starts an execution; and the end of an execution, however it
\* ends, leaves the trigger loop running, the process alive and every
\* other job as it was.
C12_FailureBlocksNothing ==
    /\ [](\A o \in Range(cronEntries) : ex[o].locked => ex[o].running > 0)
    /\ [][\A o \in Range(cronEntries) :
            /\ (/\ ex[o].failed
                /\ ex'[o].fired = ex[o].fired + 1
                /\ ex[o].running = 0
                /\ ex[o].waiting = 0) => ex'[o].running = 1
            /\ ex'[o].completed > ex[o].completed =>
                   /\ cronRunning' = cronRunning
                   /\ panicked' = panicked
                   /\ \A p \in Objs \ {o} : ex'[p] = ex[p]]_vars

\* C13: the ids of the jobs in the trigger table are pairwise distinct and
\* none is the zero id of an unregistered job, whatever calls of AddJob
\* (failed ones among them) put them there.
C13_IdsDistinct ==
    \A o \in Range(cronEntries) :
        /\ job[o].id >= 1
        /\ job[o].id <= nextID
        /\ \A p \in Range(cronEntries) : p # o => job[p].id # job[o].id

\* C13's case: two jobs registered by two successful calls of AddJob.
C13_Witness ==
    /\ Len(cronEntries) = 2
    /\ Len(Jobs) = 2
    /\ Len(lastBatch) = 1
    /\ lastErr = 0

\* C14: once Stop() has been invoked, and until Start() is called again,
\* no execution begins: none through the trigger loop and its wrappers,
\* none in the goroutine of test mode.
C14_NoExecutionAfterStop ==
    [][stopped =>
          /\ \A o \in Objs : ex'[o].running <= ex[o].running
          /\ \A g \in TestIds : ~(testG[g].pc = "loop" /\ testG'[g].pc = "run")]_vars

\* C15: the step in which a stop sequence leaves its drain loop logs the
\* forced quit exactly when the deadline has elapsed and the in-flight
\* counter is above zero.
C15_ForcedQuitLogged ==
    [][\A s \in StopSeqs :
          (stop[s].pc \in {"poll", "sleep"} /\ stop'[s].pc = "wgdone") =>
              (stop'[s].forced <=>
                  (stop[s].elapsed >= stoppingTimeout /\ runningCount > 0))]_vars

\* C16: once a termination signal has been delivered, the listener has
\* been woken by it to invoke the stop path (which it does once: it is
\* then past its receive for good).
C16_StopOnFirstSignal ==
    sig.delivered >= 1 => sig.pc \in {"call", "done"}

\* C17: when the host is not inside Start(), the current token is the one
\* of the latest Start() and every earlier token is cancelled.  The step
\* in which Start() returns leaves a current token that is new and not
\* cancelled, with every earlier one cancelled; the step that invokes a
\* stop sequence leaves the current token cancelled; a cancelled token
\* stays cancelled, and only Start() replaces the current token.
StartReturns ==
    \/ startPc = "cron" /\ startPc' = "idle"
    \/ startPc = "idle" /\ startPc' = "idle" /\ startCount' = startCount + 1

StopInvoked == \E s \in StopSeqs : stop[s].pc = "idle" /\ stop'[s].pc = "poll"

C17_TokenReplaced ==
    /\ [](startPc = "idle" =>
            /\ curTok = startCount
            /\ \A t \in 1..startCount : t # curTok => t \in cancelled)
    /\ [][/\ StartReturns =>
                /\ curTok' # 0
                /\ curTok' # curTok
                /\ curTok' \notin cancelled'
                /\ \A t \in 1..startCount' : t # curTok' => t \in cancelled'
          /\ StopInvoked => (curTok # 0 => curTok \in cancelled')
          /\ cancelled \subseteq cancelled'
          /\ curTok' # curTok => StartReturns]_vars

\* C17's case: Start() has returned a second time, after a Stop().
C17_Witness ==
    /\ startCount = 2
    /\ startPc = "idle"
    /\ stopped = FALSE
    /\ \E s \in StopSeqs : stop[s].pc # "idle"
    /\ 1 \in cancelled
    /\ curTok = 2
    /\ 2 \notin cancelled

\* C18: the WaitGroup counter is never negative and no wg.Done() panics:
\* no more stop sequences complete than Start() was called.
C18_WaitGroupNeverNegative ==
    /\ wg >= 0
    /\ ~panicked
    /\ Cardinality({s \in StopSeqs : stop[s].pc \in {"done", "panic"}}) <= startCount

\* C19: (revision 1) an execution of a job begins only while the shell
\* file of that job is on disk, whether the trigger loop, a released delay
\* wrapper or the goroutine of test mode begins it.
C19_ExecutionHasArtifact ==
    [][version = 1 =>
          /\ \A o \in Objs : ex'[o].running > ex[o].running => o \in files
          /\ \A g \in TestIds :
                (testG[g].pc = "loop" /\ testG'[g].pc = "run")
                    => Jobs[testG[g].idx + 1] \in files]_vars

\* C20: while the trigger loop runs and has a job to fire, the current
\* token exists and is not cancelled.
C20_TokenLiveWhileFiring ==
    (cronRunning /\ cronEntries # <<>>) => (curTok # 0 /\ curTok \notin cancelled)

====
